---- MODULE Spec2Model ----
(***************************************************************************)
(* Motion synchronization and playback engine of mdanceio                  *)
(* (mdanceio/src/project.rs, struct Project).                              *)
(*                                                                         *)
(* The Project is modelled as a record `p` of its fields; every method of  *)
(* Project is an operator from a Project record to the Project record it   *)
(* leaves behind, composed exactly as the Rust methods call each other.    *)
(* The module variables are those fields; an action reads them with Cur,   *)
(* runs one public method as a whole and writes the result with Install.   *)
(*                                                                         *)
(* Conventions                                                             *)
(*  - Option<ModelHandle>::None is 0 (HandleAllocator hands out 1, 2, ..). *)
(*  - u32 values are written as the i32 with the same bit pattern, so that *)
(*    u32::MAX (Motion::MAX_KEYFRAME_INDEX) is -1 and a wrapped u32        *)
(*    subtraction a - b with a < b is the negative number a - b.           *)
(*  - f32 sub-frame amounts are numerators over fps_rate; f32 deltas are   *)
(*    numerators over the preferred fps (1/60 s ticks).                    *)
(*  - `log` records, for the running call, the calls it made on its        *)
(*    collaborators (motion synchronization, physics engine, clock) in     *)
(*    program order; it is cleared when the next public call starts.       *)
(***************************************************************************)
EXTENDS Integers, Sequences, FiniteSets, TLC

VARIABLES
    transform_model_order_list, \* Vec<ModelHandle>
    active_model_pair,          \* (Option<ModelHandle>, Option<ModelHandle>)
    audio_player,               \* ClockAudioPlayer: playing, cur, last
    physics_engine,             \* simulation_mode and the rigid bodies per model
    camera,                     \* PerspectiveCamera: dirty, value
    light,                      \* DirectionalLight: dirty, value
    shadow_camera,              \* ShadowCamera: dirty, value
    camera_motion,
    light_motion,
    self_shadow_motion,
    model_to_motion,            \* HashMap<ModelHandle, Motion>
    last_save_state,            \* Option<SaveState>
    editing_mode,
    playing_segment,
    selection_segment,
    base_duration,
    object_handler_allocator,   \* HandleAllocator(u32)
    model_handle_map,           \* HashMap<ModelHandle, Model>
    transform_performed_at,     \* (u32, i32)
    local_frame_index,          \* (u32, u32): <<.0, .1>>
    state_flags,                \* ProjectStates (the flags the engine reads)
    confirm_seek_flags,         \* ConfirmSeekFlags
    panicked,                   \* the process died on an arithmetic-overflow panic
    log                         \* calls made by the last public call

vars == << transform_model_order_list, active_model_pair, audio_player,
           physics_engine, camera, light, shadow_camera, camera_motion,
           light_motion, self_shadow_motion, model_to_motion, last_save_state,
           editing_mode, playing_segment, selection_segment, base_duration,
           object_handler_allocator, model_handle_map, transform_performed_at,
           local_frame_index, state_flags, confirm_seek_flags, panicked, log >>

(***************************************************************************)
(* Bounds of the model                                                     *)
(***************************************************************************)
MaxFrame == 1      \* frames 0..MaxFrame are scrubbed to and played through
MaxModels == 2     \* models loaded
MaxMissing == 1    \* bones (morphs) a motion names and the model lacks

(***************************************************************************)
(* Program constants                                                       *)
(***************************************************************************)
MINIMUM_BASE_DURATION == 300
MAXIMUM_BASE_DURATION == 2147483647
HALF_BASE_FPS == 30
PreferredFps == 60
MAX_KEYFRAME_INDEX == -1
ClampCatchUp == 65535

None == 0
NoState == [none |-> TRUE]

Max(a, b) == IF a >= b THEN a ELSE b
Min(a, b) == IF a <= b THEN a ELSE b
Clamp(v, lo, hi) == Max(lo, Min(v, hi))
\* the order of u32 values, a value above i32::MAX being a negative bit
\* pattern
U32Le(a, b) == IF (a < 0) = (b < 0) THEN a <= b ELSE a >= 0
U32Max(a, b) == IF U32Le(b, a) THEN a ELSE b
U32Min(a, b) == IF U32Le(a, b) THEN a ELSE b
U32Clamp(v, lo, hi) == U32Max(lo, U32Min(v, hi))

SimulationModes == {"Disable", "EnablePlaying", "EnableAnytime", "EnableTracing"}
\* the modes callers select in the model: EnableAnytime and EnableTracing
\* share every match arm of project.rs, one of them stands for both
SelectedModes == SimulationModes \ {"EnableAnytime"}

\* FpsUnit::new(value).value
FpsUnitNew(value) == Max(value, HALF_BASE_FPS)
preferred_motion_fps == FpsUnitNew(PreferredFps)
\* fps / base in seek_precisely and update
fps_rate == preferred_motion_fps \div HALF_BASE_FPS
time_step_factor == 1
\* the clock is followed over the frames 0..MaxFrame, sub-frames included
MaxClock == fps_rate * MaxFrame + (fps_rate - 1)
\* inverted_value * scale_factor * time_step_factor, in units of 1/fps seconds
physics_simulation_time_step ==
    (preferred_motion_fps \div HALF_BASE_FPS) * time_step_factor
\* a body's simulated time is followed exactly up to one time step and
\* saturates just above it: 0 (none), one restart step, more
MaxSimulated == physics_simulation_time_step + 1

(***************************************************************************)
(* Collaborators of Project whose code is outside project.rs: Motion,      *)
(* Model, PhysicsEngine, ClockAudioPlayer, TimeLineSegment.  Only the      *)
(* contract the engine relies on is modelled.                              *)
(***************************************************************************)
CAMERA_AND_LIGHT_TARGET_MODEL_NAME == "camera_light"

\* Motion: the target it was authored for and one keyframe track,
\* kf : frame index -> value, strictly ordered and duplicate free by being
\* a function of the frame index.
MotionEmpty == [target |-> "", kf |-> << >>]
\* Motion::duration(): the last keyframe's frame index
MotionDuration(m) ==
    IF DOMAIN m.kf = {} THEN 0
    ELSE CHOOSE k \in DOMAIN m.kf : \A j \in DOMAIN m.kf : j <= k
\* find_*_keyframe(frame): exact match
HasKeyframe(m, f) == f \in DOMAIN m.kf
\* the keyframe at or before `frame` (every track is seeded at frame 0)
PrevKeyframe(m, f) ==
    CHOOSE k \in DOMAIN m.kf : k <= f /\ \A j \in DOMAIN m.kf : j <= f => j <= k
\* what a subject shows after a read of a track before its first keyframe
Unseeded == -1
\* the first keyframe after `frame`, when there is one
NextKeyframe(m, f) ==
    CHOOSE k \in DOMAIN m.kf : k > f /\ \A j \in DOMAIN m.kf : j > f => k <= j
\* the value between the keyframes prev and next of a bracket, at `frame`
Between(m, prev, next, f) ==
    m.kf[prev] + ((m.kf[next] - m.kf[prev]) * (f - prev)) \div (next - prev)
\* the track evaluated at `frame`: the previous keyframe's value at or
\* after the last keyframe, the value on the way to the next one otherwise
ValueAt(m, f) ==
    IF \E k \in DOMAIN m.kf : k <= f
    THEN IF \E k \in DOMAIN m.kf : k > f
         THEN Between(m, PrevKeyframe(m, f), NextKeyframe(m, f), f)
         ELSE m.kf[PrevKeyframe(m, f)]
    ELSE Unseeded
\* initialize_*_frame_0: adds a frame-0 keyframe holding the subject's
\* current value unless the track has one
InitializeFrame0(m, v) ==
    IF 0 \in DOMAIN m.kf THEN m
    ELSE [m EXCEPT !.kf = [k \in DOMAIN m.kf \cup {0} |->
                              IF k = 0 THEN v ELSE m.kf[k]]]
\* merge_all_keyframes(source): keyframes of `source` are added where the
\* motion has none
MergeAllKeyframes(m, source) ==
    [m EXCEPT !.kf = [k \in DOMAIN m.kf \cup DOMAIN source.kf |->
                         IF k \in DOMAIN m.kf THEN m.kf[k] ELSE source.kf[k]]]

\* lerp_f32 / Vector3::lerp with amount = amt / fps_rate
Lerp(a, b, amt) == (a * (fps_rate - amt) + b * amt) \div fps_rate

\* Model::new_from_bytes: bind pose, rigid bodies created from it
ModelNew == [dirty_bone |-> FALSE, dirty_morph |-> FALSE,
             staging_dirty |-> FALSE, pose |-> 0, pose_frame |-> 0]
\* a rigid body: the frame of the animated pose it was last initialized
\* from and the simulated time (1/fps s) integrated since then
BodyNew == [origin |-> 0, simulated |-> 0]

\* TimeLineSegment::default()
TimeLineSegmentDefault ==
    [from |-> 0, to |-> 0, enable_from |-> FALSE, enable_to |-> FALSE]
\* TimeLineSegment::frame_index_to(duration)
frame_index_to(seg, duration) ==
    IF seg.enable_to THEN Min(seg.to, duration) ELSE duration

\* ClockAudioPlayer
ClockDefault == [playing |-> FALSE, cur |-> 0, last |-> -1]
\* AudioPlayer::play(): the clock starts from position 0
ClockPlay(ap) ==
    IF ap.playing THEN ap
    ELSE [playing |-> TRUE, cur |-> 0, last |-> -1]
\* AudioPlayer::stop(): the clock halts and rewinds
ClockStop(ap) == ClockDefault
\* AudioPlayer::update(): while playing, `elapsed` further clock units have
\* passed since the previous read
ClockUpdate(ap, elapsed) ==
    IF ap.playing
    THEN [playing |-> TRUE, cur |-> ap.cur + elapsed, last |-> ap.cur]
    ELSE ap

(***************************************************************************)
(* The log of calls                                                        *)
(***************************************************************************)
\* an event: what was called (ev), on which handle (h), for which frame (f),
\* with which tag (t) and amount or delta (d), and what the project's mode,
\* clock and cursor were at that moment
Ev(p, ev, h, f, t, d) ==
    [ev |-> ev, h |-> h, f |-> f, t |-> t, d |-> d,
     mode |-> p.physics_engine.simulation_mode,
     playing |-> p.audio_player.playing,
     at |-> p.local_frame_index[1]]
Logged(p, ev, h, f, t, d) ==
    [p EXCEPT !.log = Append(@, Ev(p, ev, h, f, t, d))]

(***************************************************************************)
(* Project: queries                                                        *)
(***************************************************************************)
Handles(p) == DOMAIN p.model_handle_map

current_frame_index(p) == p.local_frame_index[1]

is_playing(p) == p.audio_player.playing

\* variant: EnablePlaying treated like EnableAnytime
is_physics_simulation_enabled_when_stopped(p) ==
    p.physics_engine.simulation_mode # "Disable"

is_physics_simulation_enabled(p) ==
    CASE p.physics_engine.simulation_mode = "Disable" -> FALSE
      [] p.physics_engine.simulation_mode \in {"EnableAnytime", "EnableTracing"} -> TRUE
      [] p.physics_engine.simulation_mode = "EnablePlaying" -> is_playing(p)

active_model(p) ==
    IF p.active_model_pair[1] \in Handles(p) THEN p.active_model_pair[1] ELSE None

RECURSIVE MaxMotionDuration(_, _)
MaxMotionDuration(p, hs) ==
    IF hs = {} THEN 0
    ELSE LET h == CHOOSE x \in hs : TRUE
         IN Max(MotionDuration(p.model_to_motion[h]),
                MaxMotionDuration(p, hs \ {h}))

duration(p, base) ==
    LET d0 == U32Clamp(base, MINIMUM_BASE_DURATION, MAXIMUM_BASE_DURATION)
        d1 == U32Max(d0, MotionDuration(p.camera_motion))
        d2 == U32Max(d1, MotionDuration(p.light_motion))
    IN U32Max(d2, MaxMotionDuration(p, DOMAIN p.model_to_motion))

project_duration(p) == duration(p, p.base_duration)

\* variant: the base duration is set to the clamped value, the old one
\* notwithstanding
set_base_duration_resetting(p, value) ==
    LET p1 == [p EXCEPT !.base_duration =
                   U32Clamp(value, MINIMUM_BASE_DURATION, MAXIMUM_BASE_DURATION)]
        new_duration == duration(p1, value)
    IN [p1 EXCEPT !.playing_segment.to = U32Max(@, new_duration),
                  !.selection_segment.to = U32Max(@, new_duration)]

set_base_duration(p, value) ==
    LET p1 == [p EXCEPT !.base_duration =
                   U32Max(U32Clamp(value, MINIMUM_BASE_DURATION,
                                   MAXIMUM_BASE_DURATION), @)]
        new_duration == duration(p1, value)
    IN [p1 EXCEPT !.playing_segment.to = U32Max(@, new_duration),
                  !.selection_segment.to = U32Max(@, new_duration)]

reset_transform_performed_at(p) ==
    [p EXCEPT !.transform_performed_at = <<MAX_KEYFRAME_INDEX, 0>>]

\* variant: the confirm-seek flags are not consulted
can_seek_unconfirmed(p) == ~p.state_flags.enable_model_editing

can_seek(p) ==
    /\ ~p.state_flags.enable_model_editing
    /\ IF active_model(p) # None
       THEN /\ ~(p.model_handle_map[active_model(p)].dirty_bone
                 /\ p.confirm_seek_flags.bone)
            /\ ~(p.model_handle_map[active_model(p)].dirty_morph
                 /\ p.confirm_seek_flags.morph)
       ELSE /\ ~(p.camera.dirty /\ p.confirm_seek_flags.camera)
            /\ ~(p.light.dirty /\ p.confirm_seek_flags.light)

(***************************************************************************)
(* Project: synchronization                                                *)
(***************************************************************************)
\* Model::synchronize_motion for the model of handle h
synchronize_motion(p, h, frame_index, amount, timing) ==
    LET m == p.model_to_motion[h]
        q == [p EXCEPT !.model_handle_map[h].pose =
                           Lerp(ValueAt(m, frame_index),
                                ValueAt(m, frame_index + 1), amount),
                       !.model_handle_map[h].pose_frame = frame_index]
    IN Logged(q, "sync_model", h, frame_index, timing, amount)

synchronize_camera(p, frame_index, amount) ==
    LET camera0 == ValueAt(p.camera_motion, frame_index)
        value == IF amount > 0 /\ ~HasKeyframe(p.camera_motion, frame_index + 1)
                 THEN LET camera1 == ValueAt(p.camera_motion, frame_index)
                      IN Lerp(camera0, camera1, amount)
                 ELSE camera0
        q == [p EXCEPT !.camera = [dirty |-> FALSE, value |-> value]]
    IN Logged(q, "sync_camera", None, frame_index, "After", amount)

synchronize_light(p, frame_index, amount) ==
    LET light0 == ValueAt(p.light_motion, frame_index)
        value == IF amount > 0
                 THEN LET light1 == ValueAt(p.light_motion, frame_index + 1)
                      IN Lerp(light0, light1, amount)
                 ELSE light0
        q == [p EXCEPT !.light = [dirty |-> FALSE, value |-> value]]
    IN Logged(q, "sync_light", None, frame_index, "After", amount)

\* variant: a frame without a self-shadow keyframe clears the shadow camera
synchronize_self_shadow_clearing(p, frame_index, amount) ==
    LET q == [p EXCEPT !.shadow_camera =
                 [dirty |-> FALSE,
                  value |-> IF HasKeyframe(p.self_shadow_motion, frame_index)
                            THEN p.self_shadow_motion.kf[frame_index]
                            ELSE Unseeded]]
    IN Logged(q, "sync_shadow", None, frame_index, "After", amount)

synchronize_self_shadow(p, frame_index, amount) ==
    LET q == IF HasKeyframe(p.self_shadow_motion, frame_index)
             THEN [p EXCEPT !.shadow_camera =
                       [dirty |-> FALSE,
                        value |-> p.self_shadow_motion.kf[frame_index]]]
             ELSE p
    IN Logged(q, "sync_shadow", None, frame_index, "After", amount)

\* one turn of the loop over transform_model_order_list
SynchronizeModel(p, handle, frame_index, amount, timing) ==
    IF handle \in Handles(p) /\ handle \in DOMAIN p.model_to_motion
    THEN synchronize_motion(p, handle, frame_index, amount, timing)
    ELSE p

RECURSIVE SynchronizeModels(_, _, _, _, _)
SynchronizeModels(p, i, frame_index, amount, timing) ==
    IF i > Len(p.transform_model_order_list) THEN p
    ELSE SynchronizeModels(
             SynchronizeModel(p, p.transform_model_order_list[i],
                              frame_index, amount, timing),
             i + 1, frame_index, amount, timing)

\* the `if timing == SimulationTiming::After` block
SynchronizeAfter(p, frame_index, amount, timing) ==
    IF timing = "After"
    THEN synchronize_self_shadow(
             synchronize_light(
                 synchronize_camera(p, frame_index, amount),
                 frame_index, amount),
             frame_index, amount)
    ELSE p

\* variant: camera, light and self-shadow first and in either phase
synchronize_all_motions_camera_first(p, frame_index, amount, timing) ==
    Logged(SynchronizeModels(
               SynchronizeAfter(
                   Logged(p, "sync_begin", None, frame_index, timing, amount),
                   frame_index, amount, "After"),
               1, frame_index, amount, timing),
           "sync_end", None, frame_index, timing, amount)

synchronize_all_motions(p, frame_index, amount, timing) ==
    Logged(SynchronizeAfter(
               SynchronizeModels(
                   Logged(p, "sync_begin", None, frame_index, timing, amount),
                   1, frame_index, amount, timing),
               frame_index, amount, timing),
           "sync_end", None, frame_index, timing, amount)

\* variant: the models are not marked
mark_all_models_dirty_skipped(p) == p

mark_all_models_dirty(p) ==
    Logged([p EXCEPT !.model_handle_map =
                [h \in Handles(p) |-> [p.model_handle_map[h] EXCEPT !.staging_dirty = TRUE]]],
           "mark_dirty", Cardinality(Handles(p)), 0, "", 0)

(***************************************************************************)
(* Project: physics coupling                                               *)
(***************************************************************************)
\* PhysicsEngine::step(delta): every body integrates delta of simulated time
PhysicsStep(p, delta, caller) ==
    Logged([p EXCEPT !.physics_engine.bodies =
                [h \in DOMAIN @ |->
                    [@[h] EXCEPT !.simulated = Min(@ + delta, MaxSimulated)]]],
           "step", None, current_frame_index(p), caller, delta)

\* Model::initialize_all_rigid_bodies_transform_feedback, for every model:
\* each body is placed at the transform its bone has in the current pose
InitializeAllRigidBodies(p) ==
    Logged([p EXCEPT !.physics_engine.bodies =
                [h \in Handles(p) |->
                    [origin |-> p.model_handle_map[h].pose_frame, simulated |-> 0]]],
           "init_bodies", Cardinality(Handles(p)), 0, "", 0)

\* Model::synchronize_all_rigid_bodies_transform_feedback_from_simulation,
\* for every model: the bones take the bodies' simulated transforms
PullFromSimulation(p, caller) ==
    IF Handles(p) = {} THEN p
    ELSE Logged(p, "pull", Cardinality(Handles(p)), current_frame_index(p), caller, 0)

MarkStagingDirty(p) ==
    [p EXCEPT !.model_handle_map =
        [h \in Handles(p) |-> [p.model_handle_map[h] EXCEPT !.staging_dirty = TRUE]]]

\* variant: no check of the simulation mode
internal_perform_physics_simulation_ungated(p, delta) ==
    PullFromSimulation(PhysicsStep(p, delta, "perform"), "perform")

internal_perform_physics_simulation(p, delta) ==
    IF is_physics_simulation_enabled(p)
    THEN PullFromSimulation(PhysicsStep(p, delta, "perform"), "perform")
    ELSE p

\* variant: the rigid bodies are left as they are
restart_without_reinitialization(p, frame_index) ==
    mark_all_models_dirty(
      synchronize_all_motions(
        internal_perform_physics_simulation(
          synchronize_all_motions(
            Logged(p, "restart", None, frame_index, "", 0),
            frame_index, 0, "Before"),
          physics_simulation_time_step),
        frame_index, 0, "After"))

\* variant: the time step is made before the Before-phase pass
restart_stepping_first(p, frame_index) ==
    mark_all_models_dirty(
      synchronize_all_motions(
        InitializeAllRigidBodies(
          synchronize_all_motions(
            internal_perform_physics_simulation(
              Logged(p, "restart", None, frame_index, "", 0),
              physics_simulation_time_step),
            frame_index, 0, "Before")),
        frame_index, 0, "After"))

\* the calls are written innermost first: Before-phase pass, rigid-body
\* reinitialization, one simulated time step, After-phase pass, dirty marks
restart(p, frame_index) ==
    mark_all_models_dirty(
      synchronize_all_motions(
        internal_perform_physics_simulation(
          InitializeAllRigidBodies(
            synchronize_all_motions(
              Logged(p, "restart", None, frame_index, "", 0),
              frame_index, 0, "Before")),
          physics_simulation_time_step),
        frame_index, 0, "After"))

\* self.restart(self.current_frame_index())
RestartAtCursor(p) == restart(p, current_frame_index(p))

\* physics_engine.reset(); per model: reinitialize, pull back, mark the
\* staging buffer; step(0); restart at the cursor
reset_physics_simulation(p) ==
    RestartAtCursor(
      PhysicsStep(
        MarkStagingDirty(
          PullFromSimulation(
            InitializeAllRigidBodies(Logged(p, "physics_reset", None, 0, "", 0)),
            "reset")),
        0, "reset"))

(***************************************************************************)
(* Project: seeking                                                        *)
(***************************************************************************)
ResetPerformedAt(p, frame_index) ==
    IF p.transform_performed_at[1] # MAX_KEYFRAME_INDEX
       /\ frame_index # p.transform_performed_at[1]
    THEN reset_transform_performed_at(p) ELSE p

\* variant: the physics engine is reset before the restart
RestartIfBackward_resetting(p, frame_index) ==
    IF frame_index < p.local_frame_index[1]
    THEN restart(Logged(p, "physics_reset", None, 0, "", 0), frame_index)
    ELSE p

RestartIfBackward(p, frame_index) ==
    IF frame_index < p.local_frame_index[1] THEN restart(p, frame_index) ELSE p

ClearDirty(p) == [p EXCEPT !.light.dirty = FALSE, !.camera.dirty = FALSE]

\* local_frame_index.1 = frame_index - local_frame_index.0 in u32, then
\* local_frame_index.0 = frame_index
MoveCursor(p, frame_index, overflow_checks) ==
    IF frame_index < p.local_frame_index[1] /\ overflow_checks
    THEN Logged([p EXCEPT !.panicked = TRUE], "panic", None, frame_index, "", 0)
    ELSE [p EXCEPT !.local_frame_index =
              <<frame_index, frame_index - p.local_frame_index[1]>>]

\* overflow_checks: whether the build panics on arithmetic overflow (debug
\* profile) or wraps (release profile)
internal_seek_precisely(p, frame_index, amount, delta, overflow_checks) ==
    MoveCursor(
      ClearDirty(
        mark_all_models_dirty(
          synchronize_all_motions(
            internal_perform_physics_simulation(
              synchronize_all_motions(
                RestartIfBackward(
                  ResetPerformedAt(
                    Logged(p, "seek", None, frame_index, "", delta),
                    frame_index),
                  frame_index),
                frame_index, amount, "Before"),
              delta),
            frame_index, amount, "After"))),
      frame_index, overflow_checks)

internal_seek(p, frame_index) ==
    internal_seek_precisely(p, frame_index, 0, 0, TRUE)

\* variant: the editing mode, once Select, stays
set_active_model_keeping_mode(p, model) ==
    LET last_active_model == p.active_model_pair[1]
    IN IF last_active_model # model /\ ~p.state_flags.enable_model_editing
       THEN LET p1 == [p EXCEPT !.active_model_pair = <<model, last_active_model>>,
                                !.editing_mode = "Select"]
            IN internal_seek(p1, p1.local_frame_index[1])
       ELSE p

set_active_model(p, model) ==
    LET last_active_model == p.active_model_pair[1]
    IN IF last_active_model # model /\ ~p.state_flags.enable_model_editing
       THEN LET p1 == [p EXCEPT !.active_model_pair = <<model, last_active_model>>,
                                !.editing_mode =
                                    IF @ = "None" THEN "Select"
                                    ELSE IF model = None THEN "None" ELSE @]
            IN internal_seek(p1, p1.local_frame_index[1])
       ELSE p

set_physics_simulation_mode(p, value) ==
    IF p.physics_engine.simulation_mode # value
    THEN reset_physics_simulation([p EXCEPT !.physics_engine.simulation_mode = value])
    ELSE p

(***************************************************************************)
(* Project: playback                                                       *)
(***************************************************************************)
\* SaveState::new.  local_frame_index and visible_grid are captured too but
\* read back only under force_seek, which stop() never passes.
SaveStateNew(p) ==
    [none |-> FALSE,
     active_model |-> p.active_model_pair[1],
     camera_value |-> p.camera.value,
     light_value |-> p.light.value,
     physics_simulation_mode |-> p.physics_engine.simulation_mode,
     state_flags |-> p.state_flags]

\* camera angle, look-at, distance, fov; light color, direction; state_flags
RestoreValues(p, state) ==
    [p EXCEPT !.camera.value = state.camera_value,
              !.light.value = state.light_value,
              !.state_flags = state.state_flags]

\* variant: the physics simulation mode is not written back
restore_state_without_mode(p, state, force_seek) ==
    RestoreValues(
      set_active_model(
        Logged(p, "restore_state", state.active_model, 0, "", 0),
        state.active_model),
      state)

\* the force_seek branch (internal_seek(state.local_frame_index)) is left
\* out: stop() is the only caller and passes false
restore_state(p, state, force_seek) ==
    set_physics_simulation_mode(
      RestoreValues(
        set_active_model(
          Logged(p, "restore_state", state.active_model, 0, "", 0),
          state.active_model),
        state),
      state.physics_simulation_mode)

\* variant: a snapshot taken earlier is kept
prepare_playing_once(p) ==
    LET p1 == Logged([p EXCEPT !.last_save_state =
                         IF @.none THEN SaveStateNew(p) ELSE @],
                     "save_state", p.active_model_pair[1], 0, "", 0)
    IN set_active_model(p1, None)

prepare_playing(p) ==
    LET p1 == Logged([p EXCEPT !.last_save_state = SaveStateNew(p)],
                     "save_state", p.active_model_pair[1], 0, "", 0)
    IN set_active_model(p1, None)

\* variant: the snapshot is restored but kept
prepare_stopping_keeping_snapshot(p, force_seek) ==
    IF ~p.last_save_state.none
    THEN restore_state(p, p.last_save_state, force_seek) ELSE p

RestoreSaved(p, force_seek) ==
    IF ~p.last_save_state.none
    THEN restore_state(p, p.last_save_state, force_seek) ELSE p

prepare_stopping(p, force_seek) ==
    [RestoreSaved(p, force_seek) EXCEPT !.last_save_state = NoState]

SynchronizeAtSegmentStart(p) ==
    synchronize_all_motions(p, p.playing_segment.from, 0, "Before")

StartClock(p) ==
    Logged([p EXCEPT !.audio_player = ClockPlay(@)], "clock_play", None, 0, "", 0)

\* variant: the clock is started before the synchronization and the reset
play_clock_first(p) ==
    IF ~p.state_flags.enable_model_editing
    THEN reset_physics_simulation(
           SynchronizeAtSegmentStart(StartClock(prepare_playing(p))))
    ELSE p

\* variant: playback starts with a seek to the playing segment's start
play_from_segment_start(p) ==
    IF ~p.state_flags.enable_model_editing
    THEN StartClock(
           reset_physics_simulation(
             SynchronizeAtSegmentStart(
               internal_seek_precisely(prepare_playing(p), p.playing_segment.from,
                                       0, 0, FALSE))))
    ELSE p

play(p) ==
    IF ~p.state_flags.enable_model_editing
    THEN StartClock(
           reset_physics_simulation(
             SynchronizeAtSegmentStart(prepare_playing(p))))
    ELSE p

\* audio_player.stop(); audio_player.update()
HaltClock(p) ==
    Logged([p EXCEPT !.audio_player = ClockUpdate(ClockStop(@), 0)],
           "clock_stop", None, 0, "", 0)

\* variant: the cursor is left where it was
stop_without_rewind(p) ==
    mark_all_models_dirty(
      synchronize_all_motions(
        reset_physics_simulation(
          synchronize_all_motions(
            prepare_stopping(HaltClock(p), FALSE),
            0, 0, "Before")),
        0, 0, "After"))

Rewind(p) == [p EXCEPT !.local_frame_index = <<0, 0>>]

\* variant: stop()'s own passes target the cursor instead of frame 0
stop_synchronizing_at_cursor(p) ==
    Rewind(
      mark_all_models_dirty(
        synchronize_all_motions(
          reset_physics_simulation(
            synchronize_all_motions(
              prepare_stopping(HaltClock(p), FALSE),
              current_frame_index(p), 0, "Before")),
          current_frame_index(p), 0, "After")))

\* variant: no After-phase pass at frame 0
stop_without_final_pass(p) ==
    Rewind(
      mark_all_models_dirty(
        reset_physics_simulation(
          synchronize_all_motions(
            prepare_stopping(HaltClock(p), FALSE),
            0, 0, "Before"))))

stop(p) ==
    Rewind(
      mark_all_models_dirty(
        synchronize_all_motions(
          reset_physics_simulation(
            synchronize_all_motions(
              prepare_stopping(HaltClock(p), FALSE),
              0, 0, "Before")),
          0, 0, "After")))

\* variant: a looping project is stopped like any other
continue_playing_without_replay(p, is_finished) ==
    IF is_finished
       \/ current_frame_index(p) >=
              frame_index_to(p.playing_segment, project_duration(p))
    THEN [project |-> stop(p), result |-> FALSE, stopped |-> TRUE]
    ELSE [project |-> p, result |-> TRUE, stopped |-> FALSE]

\* after self.stop(): replay when looping, else give up
ReplayOrEnd(p) ==
    IF p.state_flags.enable_loop
    THEN [project |-> play(internal_seek(p, 0)), result |-> TRUE, stopped |-> TRUE]
    ELSE [project |-> p, result |-> FALSE, stopped |-> TRUE]

\* is_finished: what AudioPlayer::is_finished() answers, the source having
\* played to its end or not.  Returns the project left behind, the boolean
\* result and whether playback was stopped on the way.
continue_playing(p, is_finished) ==
    IF is_finished
       \/ current_frame_index(p) >=
              frame_index_to(p.playing_segment, project_duration(p))
    THEN ReplayOrEnd(stop(p))
    ELSE [project |-> p, result |-> TRUE, stopped |-> FALSE]

\* Model::update_staging_vertex_buffer for every model
UpdateStagingVertexBuffers(p) ==
    [p EXCEPT !.model_handle_map =
        [h \in Handles(p) |-> [p.model_handle_map[h] EXCEPT !.staging_dirty = FALSE]]]

\* integers up to 2^24 are exact in an f32 (24 bits of significand)
F32Exact == 16777216
\* the spacing of the f32 values around n >= 0
RECURSIVE F32Spacing(_, _)
F32Spacing(n, q) == IF n \div q < F32Exact THEN q ELSE F32Spacing(n, 2 * q)
\* `n as f32` for a u32 n: the nearest f32, ties to the even significand
AsF32(n) ==
    LET q == F32Spacing(n, 1)
        lo == (n \div q) * q
    IN IF 2 * (n - lo) < q THEN lo
       ELSE IF 2 * (n - lo) > q THEN lo + q
       ELSE IF (n \div q) % 2 = 0 THEN lo ELSE lo + q
\* (frame_index as f32 * inverted_fpx_rate) as u32; 1 / fps_rate is a power
\* of two at the project's 60 fps, so the product is exact and the cast
\* truncates it
TargetFrame(frame_index) == AsF32(frame_index) \div fps_rate

\* variant: the catch-up after a stall is not clamped
Tick_unclamped(c, elapsed, overflow_checks) ==
    IF c.result
    THEN LET q == [c.project EXCEPT !.audio_player =
                      ClockUpdate(@, IF c.stopped THEN 0 ELSE elapsed)]
             rate == preferred_motion_fps \div HALF_BASE_FPS
             frame_index == q.audio_player.cur
             last_frame_index == q.audio_player.last
             delta == IF last_frame_index = -1 THEN 0
                      ELSE IF frame_index > last_frame_index
                      THEN ((frame_index - last_frame_index)
                              * physics_simulation_time_step) \div rate
                      ELSE 0
         IN internal_seek_precisely(q, TargetFrame(frame_index), frame_index % rate,
                                    delta, overflow_checks)
    ELSE c.project

\* the body of `if self.is_playing() && self.continue_playing()`, c being
\* what continue_playing returned
Tick(c, elapsed, overflow_checks) ==
    IF c.result
    THEN LET q == [c.project EXCEPT !.audio_player =
                      ClockUpdate(@, IF c.stopped THEN 0 ELSE elapsed)]
             fps == preferred_motion_fps
             rate == fps \div HALF_BASE_FPS
             frame_index == q.audio_player.cur
             last_frame_index == q.audio_player.last
             amount == frame_index % rate
             delta == IF last_frame_index = -1 THEN 0
                      ELSE IF frame_index > last_frame_index
                      THEN (Min(frame_index - last_frame_index, ClampCatchUp)
                              * physics_simulation_time_step) \div rate
                      ELSE 0
         IN internal_seek_precisely(q, TargetFrame(frame_index), amount,
                                    delta, overflow_checks)
    ELSE c.project

\* the loop over update_staging_vertex_buffer, not reached after a panic
Staged(p) == IF p.panicked THEN p ELSE UpdateStagingVertexBuffers(p)

\* elapsed: the time the clock reports at this call's audio_player.update();
\* a clock restarted by this very call is read before any time has passed
update(p, elapsed, is_finished, overflow_checks) ==
    Staged(Tick(IF is_playing(p) THEN continue_playing(p, is_finished)
                ELSE [project |-> p, result |-> FALSE, stopped |-> FALSE],
                elapsed, overflow_checks))

seek_precisely(p, frame_index, amount, force_seek, overflow_checks) ==
    IF can_seek(p)
    THEN LET seek_from == p.local_frame_index[1]
             rate == preferred_motion_fps \div HALF_BASE_FPS
             delta == IF frame_index > seek_from
                      THEN ((frame_index - seek_from) * rate)
                               * physics_simulation_time_step
                      ELSE 0
         IN internal_seek_precisely(set_base_duration(p, frame_index),
                                    frame_index, amount, delta, overflow_checks)
    ELSE p

seek(p, frame_index, force_seek, overflow_checks) ==
    seek_precisely(p, frame_index, 0, force_seek, overflow_checks)

(***************************************************************************)
(* Project: models and motions                                             *)
(***************************************************************************)
\* variant: the new motion is merged into the last one, which then wins
add_model_motion_keeping_last(p, motion, model) ==
    LET has_last == model \in DOMAIN p.model_to_motion
        m1 == IF has_last /\ p.state_flags.enable_motion_merge
              THEN MergeAllKeyframes(p.model_to_motion[model], motion)
              ELSE motion
    IN IF model \in Handles(p)
       THEN LET m2 == InitializeFrame0(m1, p.model_handle_map[model].pose)
                p1 == [p EXCEPT !.model_to_motion =
                           [h \in DOMAIN @ \cup {model} |->
                               IF h = model THEN m2 ELSE @[h]]]
            IN set_base_duration(p1, project_duration(p1))
       ELSE p

add_model_motion(p, motion, model) ==
    LET has_last == model \in DOMAIN p.model_to_motion
        m1 == IF has_last /\ p.state_flags.enable_motion_merge
              THEN MergeAllKeyframes(motion, p.model_to_motion[model])
              ELSE motion
    IN IF model \in Handles(p)
       THEN LET m2 == InitializeFrame0(m1, p.model_handle_map[model].pose)
                p1 == [p EXCEPT !.model_to_motion =
                           [h \in DOMAIN @ \cup {model} |->
                               IF h = model THEN m2 ELSE @[h]]]
            IN set_base_duration(p1, project_duration(p1))
       ELSE p

\* variant: the new model is not entered in the transform order
add_model_unordered(p) ==
    LET model_handle == p.object_handler_allocator + 1
        p1 == [p EXCEPT
                 !.object_handler_allocator = model_handle,
                 !.model_handle_map =
                     [h \in DOMAIN @ \cup {model_handle} |->
                         IF h = model_handle THEN ModelNew ELSE @[h]],
                 !.physics_engine.bodies =
                     [h \in DOMAIN @ \cup {model_handle} |->
                         IF h = model_handle THEN BodyNew ELSE @[h]]]
    IN add_model_motion(p1, MotionEmpty, model_handle)

add_model(p) ==
    LET model_handle == p.object_handler_allocator + 1
        p1 == [p EXCEPT
                 !.object_handler_allocator = model_handle,
                 !.model_handle_map =
                     [h \in DOMAIN @ \cup {model_handle} |->
                         IF h = model_handle THEN ModelNew ELSE @[h]],
                 !.physics_engine.bodies =
                     [h \in DOMAIN @ \cup {model_handle} |->
                         IF h = model_handle THEN BodyNew ELSE @[h]],
                 !.transform_model_order_list = Append(@, model_handle)]
    IN add_model_motion(p1, MotionEmpty, model_handle)

\* self.set_active_model(Some(handle)), handle being the newest one
ActivateNewest(p) == set_active_model(p, p.object_handler_allocator)

\* parsed: whether Model::new_from_bytes accepted the bytes
load_model(p, parsed) ==
    IF parsed THEN ActivateNewest(add_model(p)) ELSE p

restart_from_current(p) == restart(p, p.local_frame_index[1])

\* Motion::build_add_bone_keyframes_updaters and
\* apply_add_bone_keyframes_updaters: the model's current pose becomes the
\* keyframe of the motion at `frame`
AddBoneKeyframes(p, handle, frame) ==
    IF handle \in Handles(p) /\ handle \in DOMAIN p.model_to_motion
    THEN [p EXCEPT !.model_to_motion[handle].kf =
             [k \in DOMAIN @ \cup {frame} |->
                 IF k = frame THEN p.model_handle_map[handle].pose ELSE @[k]]]
    ELSE p

\* model.or_else(|| self.active_model_pair.0)
register_bone_keyframes(p, model, frame) ==
    AddBoneKeyframes(reset_transform_performed_at(p),
                     IF model # None THEN model ELSE p.active_model_pair[1],
                     frame)

Result(p, r) == Logged(p, "result", None, 0, r, 0)

\* motion.test_all_missing_model_objects(active model): the numbers of bones
\* and morphs the motion names and the model lacks; the code computes them
\* and does nothing with them (the `if` that follows has an empty body)
TestAllMissingModelObjects(p, data) ==
    Logged(p, "test_missing", data.missing_bones, data.missing_morphs, "", 0)

\* variant: the motion's target is not looked at
load_model_motion_unchecked(p, data) ==
    IF active_model(p) # None
    THEN IF ~data.ok THEN Result(p, "Err")
         ELSE Result(restart_from_current(
                         add_model_motion(TestAllMissingModelObjects(p, data),
                                          data.motion, p.active_model_pair[1])),
                     "Ok")
    ELSE Result(p, "Err")

\* data: what Motion::new_from_bytes makes of the bytes, [ok, motion], and
\* how many bones and morphs named by the motion the active model lacks
load_model_motion(p, data) ==
    IF active_model(p) # None
    THEN IF ~data.ok THEN Result(p, "Err")
         ELSE IF data.motion.target = CAMERA_AND_LIGHT_TARGET_MODEL_NAME
              THEN Result(p, "Err")
              ELSE Result(restart_from_current(
                              add_model_motion(TestAllMissingModelObjects(p, data),
                                               data.motion, p.active_model_pair[1])),
                          "Ok")
    ELSE Result(p, "Err")

\* variant: the camera is synchronized before the motion is seeded
set_camera_motion_seeding_last(p, motion) ==
    LET p1 == [p EXCEPT !.camera_motion = motion]
        p2 == set_base_duration(p1, project_duration(p1))
        p3 == synchronize_camera(p2, p2.local_frame_index[1], 0)
    IN [p3 EXCEPT !.camera_motion = InitializeFrame0(@, p.camera.value)]

set_camera_motion(p, motion) ==
    LET p1 == [p EXCEPT !.camera_motion = motion]
        p2 == set_base_duration(p1, project_duration(p1))
        p3 == [p2 EXCEPT !.camera_motion = InitializeFrame0(@, p2.camera.value)]
    IN synchronize_camera(p3, p3.local_frame_index[1], 0)

set_light_motion(p, motion) ==
    LET p1 == [p EXCEPT !.light_motion = motion]
        p2 == set_base_duration(p1, project_duration(p1))
        p3 == [p2 EXCEPT !.light_motion = InitializeFrame0(@, p2.light.value)]
    IN synchronize_light(p3, p3.local_frame_index[1], 0)

load_camera_motion(p, data) ==
    IF ~data.ok THEN Result(p, "Err")
    ELSE IF data.motion.target # CAMERA_AND_LIGHT_TARGET_MODEL_NAME
         THEN Result(p, "Err")
         ELSE Result(set_camera_motion(p, data.motion), "Ok")

load_light_motion(p, data) ==
    IF ~data.ok THEN Result(p, "Err")
    ELSE IF data.motion.target # CAMERA_AND_LIGHT_TARGET_MODEL_NAME
         THEN Result(p, "Err")
         ELSE Result(set_light_motion(p, data.motion), "Ok")

(***************************************************************************)
(* State machine                                                           *)
(***************************************************************************)
Cur ==
    [transform_model_order_list |-> transform_model_order_list,
     active_model_pair |-> active_model_pair,
     audio_player |-> audio_player,
     physics_engine |-> physics_engine,
     camera |-> camera,
     light |-> light,
     shadow_camera |-> shadow_camera,
     camera_motion |-> camera_motion,
     light_motion |-> light_motion,
     self_shadow_motion |-> self_shadow_motion,
     model_to_motion |-> model_to_motion,
     last_save_state |-> last_save_state,
     editing_mode |-> editing_mode,
     playing_segment |-> playing_segment,
     selection_segment |-> selection_segment,
     base_duration |-> base_duration,
     object_handler_allocator |-> object_handler_allocator,
     model_handle_map |-> model_handle_map,
     transform_performed_at |-> transform_performed_at,
     local_frame_index |-> local_frame_index,
     state_flags |-> state_flags,
     confirm_seek_flags |-> confirm_seek_flags,
     panicked |-> panicked,
     log |-> log]

Install(q) ==
    \E r \in {q} :
        /\ transform_model_order_list' = r.transform_model_order_list
        /\ active_model_pair' = r.active_model_pair
        /\ audio_player' = r.audio_player
        /\ physics_engine' = r.physics_engine
        /\ camera' = r.camera
        /\ light' = r.light
        /\ shadow_camera' = r.shadow_camera
        /\ camera_motion' = r.camera_motion
        /\ light_motion' = r.light_motion
        /\ self_shadow_motion' = r.self_shadow_motion
        /\ model_to_motion' = r.model_to_motion
        /\ last_save_state' = r.last_save_state
        /\ editing_mode' = r.editing_mode
        /\ playing_segment' = r.playing_segment
        /\ selection_segment' = r.selection_segment
        /\ base_duration' = r.base_duration
        /\ object_handler_allocator' = r.object_handler_allocator
        /\ model_handle_map' = r.model_handle_map
        /\ transform_performed_at' = r.transform_performed_at
        /\ local_frame_index' = r.local_frame_index
        /\ state_flags' = r.state_flags
        /\ confirm_seek_flags' = r.confirm_seek_flags
        /\ panicked' = r.panicked
        /\ log' = r.log

\* a public call starts: the log holds the call and its arguments (h, f):
\* seek(f, force_seek = (h = 1)); update with is_finished = (f = 1);
\* set_active_model(h); load_*_motion with bytes that parse (h = 1) to a
\* motion targeting the camera and light (f = 1) or a model (f = 0)
Call(op, h, f) ==
    [Cur EXCEPT !.log = <<Ev(Cur, "call", h, f, op, 0)>>]

\* a client writes a field through one of the *_mut accessors: no method of
\* Project runs
Client == [Cur EXCEPT !.log = << >>]

\* what Motion::new_from_bytes can return for the bytes a caller passes
ModelMotionA == [target |-> "model", kf |-> (0 :> 2 @@ 1 :> 4)]
CameraLightMotionA == [target |-> CAMERA_AND_LIGHT_TARGET_MODEL_NAME, kf |-> (1 :> 4)]
MotionData ==
    { [ok |-> TRUE, motion |-> ModelMotionA,
       missing_bones |-> 0, missing_morphs |-> 0],
      [ok |-> TRUE, motion |-> CameraLightMotionA,
       missing_bones |-> 0, missing_morphs |-> 0],
      [ok |-> FALSE, motion |-> MotionEmpty,
       missing_bones |-> 0, missing_morphs |-> 0] }
\* a camera motion whose first keyframe is two frames after the seeded one
CameraMotionSparse == [target |-> CAMERA_AND_LIGHT_TARGET_MODEL_NAME, kf |-> (2 :> 8)]
\* model motions a caller has on file: they overlap at frame 1, the first
\* alone has frame 0, the second alone frame 2
ModelMotionB == [target |-> "model", kf |-> (1 :> 6 @@ 2 :> 8)]
MotionFiles == <<ModelMotionA, ModelMotionB>>
\* values a client writes through global_camera_mut / global_light_mut
EditValues == {7}

\* Project::new, for the state flags and confirm-seek flags given.
\* state_flags and confirm_seek_flags are plain data the engine only reads
\* (no method of Project writes them apart from restore_state); the
\* configuration a project runs with is chosen by the initial condition.
ProjectNew(flags, confirm) ==
    [transform_model_order_list |-> << >>,
     active_model_pair |-> <<None, None>>,
     audio_player |-> ClockDefault,
     physics_engine |-> [simulation_mode |-> "EnableTracing", bodies |-> << >>],
     camera |-> [dirty |-> FALSE, value |-> 0],
     light |-> [dirty |-> FALSE, value |-> 0],
     shadow_camera |-> [dirty |-> FALSE, value |-> 0],
     camera_motion |-> InitializeFrame0(MotionEmpty, 0),
     light_motion |-> InitializeFrame0(MotionEmpty, 0),
     self_shadow_motion |-> InitializeFrame0(MotionEmpty, 0),
     model_to_motion |-> << >>,
     last_save_state |-> NoState,
     editing_mode |-> "None",
     playing_segment |-> TimeLineSegmentDefault,
     selection_segment |-> TimeLineSegmentDefault,
     base_duration |-> MINIMUM_BASE_DURATION,
     object_handler_allocator |-> 0,
     model_handle_map |-> << >>,
     transform_performed_at |-> <<MAX_KEYFRAME_INDEX, 0>>,
     local_frame_index |-> <<0, 0>>,
     state_flags |-> flags,
     confirm_seek_flags |-> confirm,
     panicked |-> FALSE,
     log |-> << >>]

\* ProjectStates as Project::new sets the flags the engine reads, and
\* ConfirmSeekFlags::default()
DefaultFlags ==
    [enable_loop |-> FALSE, enable_model_editing |-> FALSE, enable_motion_merge |-> TRUE]
DefaultConfirm ==
    [bone |-> FALSE, morph |-> FALSE, camera |-> FALSE, light |-> FALSE]

\* the project after n successful load_model calls
RECURSIVE WithModels(_, _)
WithModels(p, n) ==
    IF n = 0 THEN p ELSE load_model(WithModels(p, n - 1), TRUE)

\* the project a session starts from; its log is empty
Starts(q) ==
    \E r \in {q} :
        /\ transform_model_order_list = r.transform_model_order_list
        /\ active_model_pair = r.active_model_pair
        /\ audio_player = r.audio_player
        /\ physics_engine = r.physics_engine
        /\ camera = r.camera
        /\ light = r.light
        /\ shadow_camera = r.shadow_camera
        /\ camera_motion = r.camera_motion
        /\ light_motion = r.light_motion
        /\ self_shadow_motion = r.self_shadow_motion
        /\ model_to_motion = r.model_to_motion
        /\ last_save_state = r.last_save_state
        /\ editing_mode = r.editing_mode
        /\ playing_segment = r.playing_segment
        /\ selection_segment = r.selection_segment
        /\ base_duration = r.base_duration
        /\ object_handler_allocator = r.object_handler_allocator
        /\ model_handle_map = r.model_handle_map
        /\ transform_performed_at = r.transform_performed_at
        /\ local_frame_index = r.local_frame_index
        /\ state_flags = r.state_flags
        /\ confirm_seek_flags = r.confirm_seek_flags
        /\ panicked = r.panicked
        /\ log = << >>

\* playback: MaxModels models loaded, looping on or off
Init ==
    \E loop \in BOOLEAN :
        Starts(WithModels(ProjectNew([DefaultFlags EXCEPT !.enable_loop = loop],
                                     DefaultConfirm), MaxModels))

\* seek policy: MaxModels models loaded, every confirm-seek configuration
InitPolicy ==
    \E confirm \in [bone : BOOLEAN, morph : BOOLEAN, camera : BOOLEAN, light : BOOLEAN] :
        Starts(WithModels(ProjectNew(DefaultFlags, confirm), MaxModels))

\* camera and light: MaxModels models loaded, default flags
InitRestore ==
    Starts(WithModels(ProjectNew(DefaultFlags, DefaultConfirm), MaxModels))

\* no model; seeks off a dirty camera are confirmed or not
InitDuration ==
    \E confirm \in BOOLEAN :
        Starts(ProjectNew(DefaultFlags, [DefaultConfirm EXCEPT !.camera = confirm]))

\* one model loaded and the cursor moved off frame 0
InitCursor ==
    Starts(seek(WithModels(ProjectNew(DefaultFlags, DefaultConfirm), 1),
                MaxFrame, FALSE, TRUE))

\* motion loading
InitMotion == Starts(ProjectNew(DefaultFlags, DefaultConfirm))

Flag(b) == IF b THEN 1 ELSE 0
TargetsCamera(data) == Flag(data.motion.target = CAMERA_AND_LIGHT_TARGET_MODEL_NAME)

\* the build profile matters only where the u32 subtraction underflows
Profiles(frame_index) ==
    IF frame_index < local_frame_index[1] THEN BOOLEAN ELSE {TRUE}

Play == /\ ~panicked
        /\ Install(play(Call("play", None, 0)))

Stop == /\ ~panicked
        /\ Install(stop(Call("stop", None, 0)))

Update == /\ ~panicked
          /\ \E elapsed \in 0 .. (MaxClock - audio_player.cur), is_finished \in BOOLEAN :
             \E overflow_checks \in Profiles((audio_player.cur + elapsed) \div fps_rate) :
                Install(update(Call("update", None, Flag(is_finished)),
                               elapsed, is_finished, overflow_checks))

\* the clock was stalled for longer than the catch-up clamp covers
LongStall == ClampCatchUp + 1

\* a tick after such a stall
UpdateAfterStall ==
    /\ ~panicked
    /\ audio_player.cur <= MaxClock
    /\ \E overflow_checks \in Profiles((audio_player.cur + LongStall) \div fps_rate) :
          Install(update(Call("update", None, 0), LongStall, FALSE, overflow_checks))

\* the clock reads a position past the integers an f32 holds exactly
FarStall == {F32Exact + k : k \in 0 .. 4}

\* a tick at such a reading
UpdateFar ==
    /\ ~panicked
    /\ audio_player.cur <= MaxClock
    /\ \E elapsed \in FarStall :
         \E overflow_checks \in Profiles(TargetFrame(audio_player.cur + elapsed)) :
            Install(update(Call("update", None, 0), elapsed, FALSE, overflow_checks))

\* durations a caller asks for: below, at and above the minimum, the
\* maximum, and two u32 values above i32::MAX (0x80000001, u32::MAX)
AskedDurations ==
    {0, MINIMUM_BASE_DURATION - 1, MINIMUM_BASE_DURATION,
     MINIMUM_BASE_DURATION + 1, MAXIMUM_BASE_DURATION,
     -MAXIMUM_BASE_DURATION, -1}

SetBaseDuration ==
    /\ ~panicked
    /\ \E value \in AskedDurations :
          Install(set_base_duration(Call("set_base_duration", None, value), value))

\* the caller scrubs past the minimum base duration
SeekBeyond ==
    /\ ~panicked
    /\ \E force_seek \in BOOLEAN :
         \E overflow_checks \in Profiles(MINIMUM_BASE_DURATION + 1) :
            Install(seek(Call("seek", Flag(force_seek), MINIMUM_BASE_DURATION + 1),
                         MINIMUM_BASE_DURATION + 1, force_seek, overflow_checks))

Seek == /\ ~panicked
        /\ \E frame_index \in 0 .. MaxFrame, force_seek \in BOOLEAN :
             \E overflow_checks \in Profiles(frame_index) :
                Install(seek(Call("seek", Flag(force_seek), frame_index),
                             frame_index, force_seek, overflow_checks))

\* the caller scrubs to the end of the timeline
SeekEnd == /\ ~panicked
           /\ \E force_seek \in BOOLEAN :
                \E overflow_checks \in Profiles(project_duration(Cur)) :
                   Install(seek(Call("seek", Flag(force_seek),
                                     project_duration(Cur)),
                                project_duration(Cur), force_seek, overflow_checks))

SetActiveModel == /\ ~panicked
                  /\ \E model \in {None} \cup DOMAIN model_handle_map :
                        Install(set_active_model(Call("set_active_model", model, 0), model))

SetPhysicsSimulationMode ==
    /\ ~panicked
    /\ \E value \in SelectedModes :
          Install(set_physics_simulation_mode(
                      Call("set_physics_simulation_mode", None, 0), value))

ResetPhysicsSimulation ==
    /\ ~panicked
    /\ Install(reset_physics_simulation(Call("reset_physics_simulation", None, 0)))

RestartFromCurrent ==
    /\ ~panicked
    /\ Install(restart_from_current(Call("restart_from_current", None, 0)))

LoadModel ==
    /\ ~panicked
    /\ object_handler_allocator < MaxModels
    /\ \E parsed \in BOOLEAN :
          Install(load_model(Call("load_model", None, 0), parsed))

\* add_model with a model the caller has built
AddModel ==
    /\ ~panicked
    /\ object_handler_allocator < MaxModels
    /\ Install(add_model(Call("add_model", None, 0)))

LoadModelMotion ==
    /\ ~panicked
    /\ \E data \in MotionData :
          Install(load_model_motion(Call("load_model_motion", Flag(data.ok), TargetsCamera(data)), data))

LoadCameraMotion ==
    /\ ~panicked
    /\ \E data \in MotionData :
          Install(load_camera_motion(Call("load_camera_motion", Flag(data.ok), TargetsCamera(data)), data))

LoadLightMotion ==
    /\ ~panicked
    /\ \E data \in MotionData :
          Install(load_light_motion(Call("load_light_motion", Flag(data.ok), TargetsCamera(data)), data))

\* load_camera_motion with the bytes of the sparse camera motion
LoadSparseCameraMotion ==
    /\ ~panicked
    /\ Install(load_camera_motion(
                  Call("load_camera_motion", 1, 1),
                  [ok |-> TRUE, motion |-> CameraMotionSparse]))

\* a public call of which the log also tells the motion file passed (d)
CallWithFile(op, h, n) ==
    [Cur EXCEPT !.log = <<[Ev(Cur, "call", h, 0, op, 0) EXCEPT !.d = n]>>]

\* load_model_motion with the bytes of motion file n, of whose bones and
\* morphs the active model may lack some
LoadModelMotionFile ==
    /\ ~panicked
    /\ \E n \in DOMAIN MotionFiles, bones \in 0 .. MaxMissing, morphs \in 0 .. MaxMissing :
          Install(load_model_motion(CallWithFile("load_model_motion", 1, n),
                                    [ok |-> TRUE, motion |-> MotionFiles[n],
                                     missing_bones |-> bones,
                                     missing_morphs |-> morphs]))

\* add_model_motion with the motion parsed from file n, for any model
AddModelMotion ==
    /\ ~panicked
    /\ \E n \in DOMAIN MotionFiles, model \in DOMAIN model_handle_map :
          Install(add_model_motion(CallWithFile("add_model_motion", model, n),
                                   MotionFiles[n], model))

\* register_bone_keyframes for the given or the active model, the bones'
\* frame list holding one frame
RegisterBoneKeyframes ==
    /\ ~panicked
    /\ \E model \in {None} \cup DOMAIN model_handle_map, frame \in 0 .. MaxFrame :
          Install(register_bone_keyframes(
                      Call("register_bone_keyframes", model, frame), model, frame))

\* a client edits the camera through global_camera_mut(): the camera is dirty
EditCamera ==
    /\ ~panicked
    /\ \E v \in EditValues :
          Install([Client EXCEPT
                       !.camera = [dirty |-> TRUE, value |-> v]])

\* a client edits the light through global_light_mut(): the light is dirty
EditLight ==
    /\ ~panicked
    /\ \E v \in EditValues :
          Install([Client EXCEPT
                       !.light = [dirty |-> TRUE, value |-> v]])

\* a client edits a bone of the active model through active_model_mut()
EditBone ==
    /\ ~panicked
    /\ active_model(Cur) # None
    /\ Install([Client EXCEPT
                    !.model_handle_map[active_model(Cur)].dirty_bone = TRUE])

\* a client edits a morph of the active model through active_model_mut()
EditMorph ==
    /\ ~panicked
    /\ active_model(Cur) # None
    /\ Install([Client EXCEPT
                    !.model_handle_map[active_model(Cur)].dirty_morph = TRUE])

\* playback, seeking and physics
Next ==
    \/ Play
    \/ Stop
    \/ Update
    \/ Seek
    \/ SeekEnd
    \/ SetPhysicsSimulationMode

Spec == Init /\ [][Next]_vars

\* seeking while subjects are being edited
NextPolicy ==
    \/ Seek
    \/ SetActiveModel
    \/ EditCamera
    \/ EditLight
    \/ EditBone
    \/ EditMorph

SpecPolicy == InitPolicy /\ [][NextPolicy]_vars

\* loading motions
NextMotion ==
    \/ Seek
    \/ SetActiveModel
    \/ LoadModel
    \/ LoadModelMotion
    \/ LoadCameraMotion
    \/ LoadLightMotion
    \/ ResetPhysicsSimulation
    \/ RestartFromCurrent

SpecMotion == InitMotion /\ [][NextMotion]_vars

\* playback against a clock that may stall
NextClock ==
    \/ Play
    \/ Stop
    \/ Update
    \/ UpdateAfterStall
    \/ SetPhysicsSimulationMode

SpecClock == Init /\ [][NextClock]_vars

\* playback of a project whose camera and light are animated and edited
NextRestore ==
    \/ Play
    \/ Stop
    \/ Seek
    \/ LoadCameraMotion
    \/ LoadLightMotion
    \/ EditCamera
    \/ EditLight

SpecRestore == InitRestore /\ [][NextRestore]_vars

\* motions added over motions
NextMerge ==
    \/ LoadModelMotionFile
    \/ AddModelMotion
    \/ SetActiveModel
    \/ Seek

SpecMerge == InitRestore /\ [][NextMerge]_vars

\* every operation that resynchronizes the pose
NextPose ==
    \/ Play
    \/ Stop
    \/ Update
    \/ Seek
    \/ SetActiveModel
    \/ ResetPhysicsSimulation
    \/ RestartFromCurrent

SpecPose == InitRestore /\ [][NextPose]_vars

\* long playback
NextTick ==
    \/ Play
    \/ Stop
    \/ Update
    \/ UpdateFar

SpecTick == Init /\ [][NextTick]_vars

\* playback of an animated camera
NextCamera ==
    \/ Play
    \/ Stop
    \/ Update
    \/ LoadCameraMotion
    \/ LoadSparseCameraMotion

SpecCamera == Init /\ [][NextCamera]_vars

\* the timeline's length
NextDuration ==
    \/ SetBaseDuration
    \/ Seek
    \/ SeekBeyond
    \/ LoadCameraMotion
    \/ EditCamera

SpecDuration == InitDuration /\ [][NextDuration]_vars

\* the models of a project
NextModels ==
    \/ AddModel
    \/ LoadModel
    \/ LoadModelMotion
    \/ SetActiveModel

SpecModels == InitMotion /\ [][NextModels]_vars

\* what a session has animated so far: the camera or the light by a loaded
\* motion, models by a loaded motion, models by registered keyframes
Animated ==
    {k \in {"camera", "light", "models", "keyframes"} :
        \/ k = "camera" /\ camera_motion # InitializeFrame0(MotionEmpty, 0)
        \/ k = "light" /\ light_motion # InitializeFrame0(MotionEmpty, 0)
        \/ k = "models" /\ \E h \in DOMAIN model_to_motion :
                                model_to_motion[h].target # ""
        \/ k = "keyframes" /\ \E h \in DOMAIN model_to_motion :
                                   /\ model_to_motion[h].target = ""
                                   /\ model_to_motion[h].kf # (0 :> 0)}

\* the operations that are not to move the cursor, on a project whose
\* cursor is off frame 0; a session animates one kind of subject
NextCursor ==
    \/ Play
    \/ SetActiveModel
    \/ SetPhysicsSimulationMode
    \/ ResetPhysicsSimulation
    \/ RestartFromCurrent
    \/ LoadModel
    \/ Animated \subseteq {"models"} /\ LoadModelMotion
    \/ Animated \subseteq {"camera"} /\ LoadCameraMotion
    \/ Animated \subseteq {"light"} /\ LoadLightMotion
    \/ Animated \subseteq {"keyframes"} /\ RegisterBoneKeyframes

SpecCursor == InitCursor /\ [][NextCursor]_vars

(***************************************************************************)
(* Properties                                                              *)
(***************************************************************************)
\* the public call whose log this is, "" before the first call
LastCall == IF log = << >> THEN "" ELSE log[1].t
\* the state the last call found
Found == log[1]
Bodies == physics_engine.bodies
\* the end of the playing segment
SegmentEnd == frame_index_to(playing_segment, project_duration(Cur))

\* event i of the log is an internal seek to a frame before the cursor
BackwardSeek(i) == log[i].ev = "seek" /\ log[i].f < log[i].at
LastOf(ev) ==
    CHOOSE j \in DOMAIN log :
        log[j].ev = ev /\ \A k \in DOMAIN log : log[k].ev = ev => k <= j
\* simulated time stepped by the events after event j
RECURSIVE SteppedAfter(_, _)
SteppedAfter(j, k) ==
    IF k <= j THEN 0
    ELSE SteppedAfter(j, k - 1) + (IF log[k].ev = "step" THEN log[k].d ELSE 0)

\* C1 as stated: a backward seek (seek() or a tick) restarts physics at the
\* target frame and leaves every rigid body exactly at its reinitialization
\* from the pose at the target frame.
C1_AsStated ==
    \A i \in DOMAIN log :
        BackwardSeek(i) =>
            /\ i < Len(log) /\ log[i + 1].ev = "restart" /\ log[i + 1].f = log[i].f
            /\ \A h \in DOMAIN Bodies :
                   Bodies[h] = [origin |-> log[i].f, simulated |-> 0]

\* C1: a backward seek (seek() or a tick) always restarts physics at the
\* target frame; the restart reinitializes every rigid body from the pose at
\* the target frame, and what a body holds afterwards is that
\* reinitialization advanced only by the steps made after it (the restart's
\* one time step and the seek's own step when simulation is enabled, none
\* when it is not): nothing is carried over from the later position.
C1_BackwardSeekRestarts ==
    \A i \in DOMAIN log :
        BackwardSeek(i) =>
            /\ i < Len(log) /\ log[i + 1].ev = "restart" /\ log[i + 1].f = log[i].f
            /\ \E j \in DOMAIN log : j > i /\ log[j].ev = "init_bodies"
            /\ \A h \in DOMAIN Bodies :
                   Bodies[h] =
                       [origin |-> log[i].f,
                        simulated |->
                            Min(SteppedAfter(LastOf("init_bodies"), Len(log)),
                                MaxSimulated)]
            /\ \A k \in DOMAIN log :
                   k > i /\ log[k].ev = "step" =>
                       /\ log[k].t = "perform"
                       /\ log[k].d \in {physics_simulation_time_step, log[i].d}

\* a seek() call went backward with simulation enabled and returned
C1_Witness ==
    /\ LastCall = "seek"
    /\ ~panicked
    /\ \E i \in DOMAIN log : BackwardSeek(i)
    /\ \A h \in DOMAIN Bodies :
           Bodies[h] = [origin |-> local_frame_index[1],
                        simulated |-> physics_simulation_time_step]

\* C2: when stop() returns, whatever state it found, the cursor is (0, 0),
\* the clock is not playing and no snapshot is held.
C2_StopRewinds ==
    LastCall = "stop" =>
        /\ local_frame_index = <<0, 0>>
        /\ ~is_playing(Cur)
        /\ last_save_state = NoState

\* stop() returned after finding the clock playing and the cursor past 0
C2_Witness ==
    /\ LastCall = "stop"
    /\ Found.playing
    /\ Found.at > 0
    /\ local_frame_index = <<0, 0>>

\* the tick found the clock playing and either the source finished or the
\* cursor at or past the end of the playing segment
TickAtEnd ==
    /\ LastCall = "update"
    /\ Found.playing
    /\ (Found.f = 1 \/ Found.at >= SegmentEnd)

C4_AsStated ==
    TickAtEnd /\ ~state_flags.enable_loop =>
        /\ ~is_playing(Cur)
        /\ current_frame_index(Cur) = Found.at

\* C4: with enable_loop clear, a tick that finds the clock finished or the
\* cursor at or past the playing segment's end stops playback through
\* stop(), which rewinds: when update() returns the clock is not playing
\* and the cursor is (0, 0), not the frame reached before the tick.
C4_EndStopsAndRewinds ==
    TickAtEnd /\ ~state_flags.enable_loop =>
        /\ ~is_playing(Cur)
        /\ local_frame_index = <<0, 0>>

\* a tick without looping found the cursor at the segment's end
C4_Witness ==
    /\ TickAtEnd
    /\ ~state_flags.enable_loop
    /\ Found.at >= SegmentEnd
    /\ Found.at > 0
    /\ ~is_playing(Cur)

\* every variable but the log
state == << transform_model_order_list, active_model_pair, audio_player,
            physics_engine, camera, light, shadow_camera, camera_motion,
            light_motion, self_shadow_motion, model_to_motion, last_save_state,
            editing_mode, playing_segment, selection_segment, base_duration,
            object_handler_allocator, model_handle_map, transform_performed_at,
            local_frame_index, state_flags, confirm_seek_flags, panicked >>

\* the active subject has an edit whose confirm-seek flag is set
Unconfirmed ==
    IF active_model(Cur) # None
    THEN \/ model_handle_map[active_model(Cur)].dirty_bone /\ confirm_seek_flags.bone
         \/ model_handle_map[active_model(Cur)].dirty_morph /\ confirm_seek_flags.morph
    ELSE \/ camera.dirty /\ confirm_seek_flags.camera
         \/ light.dirty /\ confirm_seek_flags.light

\* C5: seek(frame, false) called while the active subject is dirty and its
\* confirm-seek flag is set changes no engine state: cursor, base duration,
\* segments, transform_performed_at, dirty flags, poses and all the rest.
C5_UnconfirmedSeekIsNoOp ==
    [][(log' # << >> /\ log'[1].t = "seek" /\ log'[1].h = 0 /\ Unconfirmed)
           => UNCHANGED state]_vars

\* an unforced seek to another frame was refused for an unconfirmed edit
C5_Witness ==
    /\ LastCall = "seek"
    /\ Found.h = 0
    /\ Found.f # Found.at
    /\ Unconfirmed
    /\ Len(log) = 1
    /\ current_frame_index(Cur) = Found.at

Mismatch(c) ==
    /\ c.ev = "call"
    /\ c.h = 1
    /\ \/ c.t = "load_model_motion" /\ c.f = 1
       \/ c.t \in {"load_camera_motion", "load_light_motion"} /\ c.f = 0

\* C7: load_model_motion given a camera/light motion, and load_camera_motion
\* or load_light_motion given a motion for a model, return an error and
\* leave all engine state as it was.
C7_MismatchRejected ==
    [][(log' # << >> /\ Mismatch(log'[1]))
           => /\ log'[Len(log')].ev = "result" /\ log'[Len(log')].t = "Err"
              /\ UNCHANGED state]_vars

\* a camera/light motion was refused by load_model_motion with a model active
C7_Witness ==
    /\ log # << >>
    /\ Mismatch(log[1])
    /\ LastCall = "load_model_motion"
    /\ active_model(Cur) # None
    /\ log[Len(log)].t = "Err"

\* the pass that begins at event i runs the models in list order and then,
\* in the After phase only, camera, light and self-shadow
PassInOrder(i) ==
    LET n == Len(transform_model_order_list)
        after == log[i].t = "After"
        last == i + n + (IF after THEN 4 ELSE 1)
    IN /\ last <= Len(log)
       /\ \A k \in 1 .. n :
              /\ log[i + k].ev = "sync_model"
              /\ log[i + k].h = transform_model_order_list[k]
              /\ log[i + k].t = log[i].t
       /\ after => /\ log[i + n + 1].ev = "sync_camera"
                   /\ log[i + n + 2].ev = "sync_light"
                   /\ log[i + n + 3].ev = "sync_shadow"
       /\ log[last].ev = "sync_end"

\* C8: every synchronize_all_motions pass synchronizes every model in
\* transform_model_order_list order, then camera, light and self-shadow;
\* the last three in After-phase passes only.
C8_ChannelOrder ==
    \A i \in DOMAIN log : log[i].ev = "sync_begin" => PassInOrder(i)

\* a call ran a Before-phase and an After-phase pass over several models
C8_Witness ==
    /\ Len(transform_model_order_list) >= 2
    /\ \E i, j \in DOMAIN log :
           /\ log[i].ev = "sync_begin" /\ log[i].t = "Before"
           /\ log[j].ev = "sync_begin" /\ log[j].t = "After"
           /\ log[j + Len(transform_model_order_list) + 1].ev = "sync_camera"

\* C9 as stated: in mode Disable no operation invokes physics_engine.step()
\* or pulls rigid-body transforms back from the simulation.
C9_AsStated ==
    \A i \in DOMAIN log :
        log[i].mode = "Disable" => log[i].ev \notin {"step", "pull"}

\* C9: in mode Disable internal_perform_physics_simulation neither steps
\* the engine nor pulls transforms back, so no simulated time passes; the
\* only step and pull made are those of reset_physics_simulation (in play,
\* stop and set_physics_simulation_mode), whose step is step(0).
C9_DisableOnlyResets ==
    \A i \in DOMAIN log :
        (log[i].mode = "Disable" /\ log[i].ev \in {"step", "pull"})
            => log[i].t = "reset" /\ log[i].d = 0

\* a seek ran a restart and its passes in mode Disable without a step
C9_Witness ==
    /\ LastCall = "seek"
    /\ Found.mode = "Disable"
    /\ \E i \in DOMAIN log : log[i].ev = "restart"
    /\ \A i \in DOMAIN log : log[i].ev # "step"
    /\ \A h \in DOMAIN Bodies : Bodies[h].simulated = 0

\* C10 as stated: in mode EnablePlaying physics_engine.step() is invoked
\* only while is_playing() is true.
C10_AsStated ==
    \A i \in DOMAIN log :
        (log[i].mode = "EnablePlaying" /\ log[i].ev = "step") => log[i].playing

\* C10: in mode EnablePlaying internal_perform_physics_simulation steps the
\* engine only while is_playing() is true; the one step made while the
\* clock is not playing is the step(0) of reset_physics_simulation (in
\* play, stop and set_physics_simulation_mode), which passes no time.
C10_StepsOnlyWhilePlaying ==
    \A i \in DOMAIN log :
        (log[i].mode = "EnablePlaying" /\ log[i].ev = "step" /\ ~log[i].playing)
            => log[i].t = "reset" /\ log[i].d = 0

\* a tick stepped physics in mode EnablePlaying while the clock was playing
C10_Witness ==
    /\ LastCall = "update"
    /\ \E i \in DOMAIN log :
           /\ log[i].ev = "step" /\ log[i].t = "perform"
           /\ log[i].mode = "EnablePlaying" /\ log[i].playing /\ log[i].d > 0

\* update() ran the body of its `if`: the clock was playing and
\* continue_playing() answered true, so the clock still plays
TickRan == LastCall = "update" /\ is_playing(Cur)
\* the internal seek the tick made: the last one of the call
TickSeek == log[LastOf("seek")]

\* C11: the physics delta a tick passes on is 0 when the clock has no last
\* position or its frame is not past the last tick's frame, and otherwise
\* min(frame - last_frame, 0xffff) / fps_rate times the physics time step;
\* it is never negative.
C11_TickDelta ==
    TickRan =>
        /\ TickSeek.d >= 0
        /\ TickSeek.d =
              IF audio_player.last = -1 \/ audio_player.cur <= audio_player.last
              THEN 0
              ELSE (Min(audio_player.cur - audio_player.last, ClampCatchUp)
                      * physics_simulation_time_step) \div fps_rate

\* a tick after a stall longer than the clamp passed on the clamped delta
C11_Witness ==
    /\ TickRan
    /\ audio_player.cur - audio_player.last > ClampCatchUp
    /\ TickSeek.d = (ClampCatchUp * physics_simulation_time_step) \div fps_rate

\* the calls on the motions and on the physics engine
SyncOrPhysics ==
    {"sync_begin", "sync_model", "sync_camera", "sync_light", "sync_shadow",
     "sync_end", "physics_reset", "init_bodies", "pull", "step"}

\* the steps of play() in the log: the snapshot first; the deselection's
\* internal seek next when a model was active; play()'s own Before-phase
\* pass at playing_segment.from ending right where the one physics reset
\* begins; the clock started last
PlayInOrder ==
    /\ Len(log) >= 5
    /\ log[2].ev = "save_state"
    /\ last_save_state.active_model = log[2].h
    /\ active_model_pair[1] = None
    /\ IF log[2].h # None
       THEN log[3].ev = "seek" /\ active_model_pair[2] = log[2].h
       ELSE log[3].ev = "sync_begin"
    /\ \E r \in DOMAIN log :
           /\ log[r].ev = "physics_reset"
           /\ \A k \in DOMAIN log : log[k].ev = "physics_reset" => k = r
           /\ log[r - 1].ev = "sync_end" /\ log[r - 1].t = "Before"
           /\ log[r - 1].f = playing_segment.from
           /\ \A k \in DOMAIN log : log[k].ev = "seek" => k < r
    /\ log[Len(log)].ev = "clock_play"
    /\ \A k \in DOMAIN log : log[k].ev = "clock_play" => k = Len(log)

\* C12 as stated: play() with model editing disabled captures the snapshot,
\* deselects the active model, synchronizes (Before) at playing_segment.from,
\* resets physics and only then starts the clock; is_playing() is false
\* during every synchronization and physics call it makes and true when it
\* returns.
C12_AsStated ==
    (LastCall = "play" /\ ~state_flags.enable_model_editing) =>
        /\ PlayInOrder
        /\ \A i \in DOMAIN log : log[i].ev \in SyncOrPhysics => ~log[i].playing
        /\ is_playing(Cur)

\* C12: play() with model editing disabled captures the snapshot, deselects
\* the active model, synchronizes (Before) at playing_segment.from, resets
\* physics and only then starts the clock; during every synchronization and
\* physics call it makes is_playing() is what it was when play() was called
\* (false for a stopped clock, true when play() is called during playback),
\* and it is true when play() returns.
C12_PlayStartsClockLast ==
    (LastCall = "play" /\ ~state_flags.enable_model_editing) =>
        /\ PlayInOrder
        /\ \A i \in DOMAIN log :
               log[i].ev \in SyncOrPhysics => log[i].playing = Found.playing
        /\ is_playing(Cur)

\* play() found the clock stopped and a model active, deselected it,
\* stepped physics and started the clock
C12_Witness ==
    /\ LastCall = "play"
    /\ ~Found.playing
    /\ log[2].ev = "save_state" /\ log[2].h # None
    /\ \E i \in DOMAIN log : log[i].ev = "step" /\ ~log[i].playing
    /\ is_playing(Cur)

\* C13 as stated: a stop() that holds the snapshot of a play() leaves the
\* camera and the light with the values that snapshot captured, whatever
\* the camera and light motions contain.
C13_AsStated ==
    [][(log' # << >> /\ log'[1].t = "stop" /\ ~last_save_state.none)
           => /\ camera'.value = last_save_state.camera_value
              /\ light'.value = last_save_state.light_value]_vars

\* C13: stop() writes the snapshot's camera and light values back and then
\* resynchronizes at frame 0 (After phase), so that after stop() returns
\* the camera and the light hold what their motions give at frame 0, not
\* dirty; they equal the snapshot only where the two coincide.
C13_StopResynchronizesCameraAndLight ==
    LastCall = "stop" =>
        /\ camera = [dirty |-> FALSE, value |-> ValueAt(camera_motion, 0)]
        /\ light = [dirty |-> FALSE, value |-> ValueAt(light_motion, 0)]
        /\ \E i, j \in DOMAIN log :
               /\ log[i].ev = "sync_camera" /\ log[i].f = 0
               /\ log[j].ev = "sync_light" /\ log[j].f = 0 /\ i < j
               /\ \A k \in DOMAIN log :
                      log[k].ev = "restore_state" => k < i

\* stop() restored a snapshot and left the camera on its motion's frame-0
\* value, the camera motion holding another value later on
C13_Witness ==
    /\ LastCall = "stop"
    /\ \E k \in DOMAIN log : log[k].ev = "restore_state"
    /\ MotionDuration(camera_motion) > 0
    /\ ValueAt(camera_motion, MotionDuration(camera_motion)) # camera.value
    /\ camera.value = ValueAt(camera_motion, 0)

\* the call that makes this step stopped playback: stop() itself or a tick
\* that reached the end
StepStops ==
    /\ log' # << >>
    /\ log'[1].t \in {"stop", "update"}
    /\ \E k \in DOMAIN log' : log'[k].ev = "clock_stop"
\* the call that makes this step is a tick, a seek or a change of the
\* simulation mode that does not stop playback
StepPlaysOn ==
    /\ log' # << >>
    /\ log'[1].t \in {"update", "seek", "set_physics_simulation_mode"}
    /\ \A k \in DOMAIN log' : log'[k].ev # "clock_stop"
\* active model and simulation mode after the step; where a looping tick
\* has replayed at once, the ones play() found on replaying
AfterStop ==
    IF last_save_state'.none
    THEN <<active_model_pair'[1], physics_engine'.simulation_mode>>
    ELSE <<last_save_state'.active_model,
           last_save_state'.physics_simulation_mode>>

\* C14: play() captures the active model and the physics simulation mode;
\* ticks, seeks and set_physics_simulation_mode calls during playback leave
\* what was captured alone; the stop() that follows (called directly or by
\* the tick that reaches the end) makes both what play() captured.
C14_StopRestoresSelectionAndMode ==
    [][/\ (log' # << >> /\ log'[1].t = "play") =>
              /\ ~last_save_state'.none
              /\ last_save_state'.active_model = active_model_pair[1]
              /\ last_save_state'.physics_simulation_mode =
                     physics_engine.simulation_mode
       /\ StepPlaysOn => UNCHANGED last_save_state
       /\ (StepStops /\ ~last_save_state.none) =>
              AfterStop = <<last_save_state.active_model,
                            last_save_state.physics_simulation_mode>>]_vars

\* stop() restored a snapshot: a model is active again and the simulation
\* mode is no longer the one stop() found
C14_Witness ==
    /\ LastCall = "stop"
    /\ \E k \in DOMAIN log :
           /\ log[k].ev = "restore_state"
           /\ log[k].h # None
           /\ active_model_pair[1] = log[k].h
    /\ Found.mode # physics_engine.simulation_mode

\* C15 as stated: every synchronization pass stop() runs, directly or
\* through reset_physics_simulation, restart or set_active_model, targets
\* frame 0, also when stop() finds the cursor at a frame f > 0.
C15_AsStated ==
    LastCall = "stop" =>
        \A i \in DOMAIN log : log[i].ev = "sync_begin" => log[i].f = 0

\* C15: the two passes stop() makes itself target the rewound frame 0: the
\* Before-phase pass that ends where its physics reset begins and the
\* After-phase pass that is the last pass of the call.  The passes made on
\* its behalf by restore_state (set_active_model, set_physics_simulation_mode)
\* and by the restart inside reset_physics_simulation target the cursor
\* stop() found, which is cleared only at the end.
C15_StopPassesAtZeroOrCursor ==
    LastCall = "stop" =>
        /\ \A i \in DOMAIN log :
               /\ log[i].ev = "sync_begin" => log[i].f \in {0, Found.at}
               /\ log[i].ev \in {"restart", "seek"} => log[i].f = Found.at
               /\ log[i].ev = "restart" =>
                      /\ log[i + 1].ev = "sync_begin"
                      /\ log[i + 1].t = "Before"
                      /\ log[i + 1].f = Found.at
        /\ log[LastOf("physics_reset") - 1].ev = "sync_end"
        /\ log[LastOf("physics_reset") - 1].t = "Before"
        /\ log[LastOf("physics_reset") - 1].f = 0
        /\ log[LastOf("sync_begin")].t = "After"
        /\ log[LastOf("sync_begin")].f = 0
        /\ LastOf("restart") < LastOf("sync_begin")

\* stop() found the cursor past frame 0 and ran a pass at that frame
C15_Witness ==
    /\ LastCall = "stop"
    /\ Found.at > 0
    /\ \E i \in DOMAIN log : log[i].ev = "sync_begin" /\ log[i].f = Found.at
    /\ local_frame_index = <<0, 0>>

\* C16 as stated: during every backward seek physics_engine.reset() and
\* the rigid-body reinitialization are both invoked before the seek's final
\* After-phase synchronization at the target frame.
C16_AsStated ==
    \A i \in DOMAIN log :
        BackwardSeek(i) =>
            /\ log[LastOf("sync_begin")].t = "After"
            /\ log[LastOf("sync_begin")].f = log[i].f
            /\ \E j, k \in DOMAIN log :
                   /\ i < j /\ j < LastOf("sync_begin")
                   /\ i < k /\ k < LastOf("sync_begin")
                   /\ log[j].ev = "physics_reset"
                   /\ log[k].ev = "init_bodies"

\* C16: during every backward seek all rigid bodies are reinitialized
\* (restart) before the seek's final After-phase synchronization at the
\* target frame, but physics_engine.reset() is not invoked: it is called by
\* reset_physics_simulation only, which a seek never reaches.
C16_BackwardSeekReinitializesOnly ==
    \A i \in DOMAIN log :
        BackwardSeek(i) =>
            /\ log[LastOf("sync_begin")].t = "After"
            /\ log[LastOf("sync_begin")].f = log[i].f
            /\ \E k \in DOMAIN log :
                   /\ i < k /\ k < LastOf("sync_begin")
                   /\ log[k].ev = "init_bodies"
            /\ \A j \in DOMAIN log : j > i => log[j].ev # "physics_reset"

\* a seek() went backward: the bodies were reinitialized and the engine
\* was not reset
C16_Witness ==
    /\ LastCall = "seek"
    /\ \E i \in DOMAIN log : BackwardSeek(i)
    /\ \E k \in DOMAIN log : log[k].ev = "init_bodies"
    /\ \A j \in DOMAIN log : log[j].ev # "physics_reset"

\* this step adds the motion of file log'[1].d for model h
AddsMotion(h) ==
    /\ log' # << >>
    /\ log'[1].d \in DOMAIN MotionFiles
    /\ \/ log'[1].t = "load_model_motion" /\ h = active_model(Cur)
       \/ log'[1].t = "add_model_motion" /\ h = log'[1].h

\* C17: when a model motion B is added (add_model_motion,
\* load_model_motion) for a model that has a motion A and motion merge is
\* enabled, the stored motion has every keyframe of A and of B, and where
\* both have a keyframe at a frame index it holds B's.
C17_MergeLaterWins ==
    [][\A h \in DOMAIN model_to_motion :
          (AddsMotion(h) /\ state_flags.enable_motion_merge) =>
              /\ h \in DOMAIN model_to_motion'
              /\ DOMAIN model_to_motion'[h].kf =
                     DOMAIN model_to_motion[h].kf
                        \cup DOMAIN MotionFiles[log'[1].d].kf
              /\ \A k \in DOMAIN MotionFiles[log'[1].d].kf :
                     model_to_motion'[h].kf[k] = MotionFiles[log'[1].d].kf[k]
              /\ \A k \in DOMAIN model_to_motion[h].kf
                             \ DOMAIN MotionFiles[log'[1].d].kf :
                     model_to_motion'[h].kf[k] = model_to_motion[h].kf[k]]_vars

\* the second file was loaded over the first: frame 0 is the first's,
\* frame 1, where they conflict, and frame 2 are the second's
C17_Witness ==
    /\ LastCall = "load_model_motion"
    /\ Found.d = 2
    /\ active_model(Cur) # None
    /\ model_to_motion[active_model(Cur)].kf =
           (0 :> ModelMotionA.kf[0] @@ 1 :> ModelMotionB.kf[1]
              @@ 2 :> ModelMotionB.kf[2])

\* the track has the frame-0 keyframe its initialize_*_frame_0 puts there
Seeded(m) == 0 \in DOMAIN m.kf

\* C18: every motion the project holds (camera, light, self-shadow, one per
\* model) is seeded with a frame-0 keyframe, and no synchronization has read
\* a motion between its installation and that seeding: no camera, light or
\* model pose holds the value of a read before the first keyframe.
C18_MotionsSeeded ==
    /\ Seeded(camera_motion)
    /\ Seeded(light_motion)
    /\ Seeded(self_shadow_motion)
    /\ \A h \in DOMAIN model_to_motion : Seeded(model_to_motion[h])
    /\ DOMAIN model_handle_map \subseteq DOMAIN model_to_motion
    /\ camera.value # Unseeded
    /\ light.value # Unseeded
    /\ \A h \in DOMAIN model_handle_map : model_handle_map[h].pose # Unseeded

\* a camera motion whose file has no frame-0 keyframe was installed with
\* the cursor at frame 0 and the camera synchronized to it
C18_Witness ==
    /\ LastCall = "load_camera_motion"
    /\ Found.at = 0
    /\ MotionDuration(camera_motion) > 0
    /\ Seeded(camera_motion)
    /\ \E i \in DOMAIN log : log[i].ev = "sync_camera" /\ log[i].f = 0
    /\ DOMAIN model_to_motion # {}

\* C19 as stated: load_model_motion of a model motion naming bones or
\* morphs the active model lacks returns Ok, installs the motion, and
\* reports the missing bones and morphs to the caller with its result.
C19_MissingObjectsReported ==
    \A i \in DOMAIN log :
        (log[i].ev = "test_missing" /\ (log[i].h > 0 \/ log[i].f > 0)) =>
            /\ log[Len(log)].ev = "result"
            /\ log[Len(log)].t = "Ok"
            /\ active_model(Cur) \in DOMAIN model_to_motion
            /\ log[Len(log)].h = log[i].h
            /\ log[Len(log)].f = log[i].f

\* the end of the last After-phase pass of the call
LastAfterPass ==
    CHOOSE j \in DOMAIN log :
        /\ log[j].ev = "sync_end" /\ log[j].t = "After"
        /\ \A k \in DOMAIN log :
               (log[k].ev = "sync_end" /\ log[k].t = "After") => k <= j

\* C20: whenever an operation has resynchronized the pose (it ran an
\* After-phase pass: a playing tick, seek, stop, restart_from_current,
\* reset_physics_simulation, a set_active_model that changes the active
\* model, play), it marked every model of model_handle_map dirty after its
\* last After-phase pass; the marks are still set when it returns, except
\* that update() goes on to consume them in its staging loop.
C20_DirtyAfterLastPass ==
    (\E i \in DOMAIN log : log[i].ev = "sync_end" /\ log[i].t = "After") =>
        /\ \E j \in DOMAIN log :
               /\ j > LastAfterPass
               /\ log[j].ev = "mark_dirty"
               /\ log[j].h = Cardinality(DOMAIN model_handle_map)
        /\ LastCall # "update" =>
               \A h \in DOMAIN model_handle_map : model_handle_map[h].staging_dirty

\* a set_active_model call changed the active model and marked every model
\* after its After-phase pass at the cursor
C20_Witness ==
    /\ LastCall = "set_active_model"
    /\ Found.h # active_model_pair[2]
    /\ Cardinality(DOMAIN model_handle_map) = MaxModels
    /\ log[Len(log)].ev = "mark_dirty"
    /\ log[LastAfterPass].f = local_frame_index[1]
    /\ \A h \in DOMAIN model_handle_map : model_handle_map[h].staging_dirty

\* C21 as stated: the u32 subtraction frame_index - local_frame_index.0 of
\* internal_seek_precisely never leaves its range, also on seeks and ticks
\* to an earlier frame; after an accepted seek local_frame_index.0 is the
\* target frame and local_frame_index.1 the distance moved.
C21_CursorDeltaInRange ==
    /\ ~panicked
    /\ local_frame_index[2] >= 0
    /\ (LastCall = "seek" /\ Len(log) > 1) =>
           /\ local_frame_index[1] = Found.f
           /\ local_frame_index[2] =
                  IF Found.f >= Found.at THEN Found.f - Found.at
                  ELSE Found.at - Found.f

\* event i is bracketed: the last pass begun before it is a Before-phase
\* pass with no step since, and the first pass begun after it is an
\* After-phase pass at the same frame index
Bracketed(i) ==
    /\ \E b \in 1 .. (i - 1) :
           /\ log[b].ev = "sync_begin" /\ log[b].t = "Before"
           /\ \A k \in (b + 1) .. (i - 1) : log[k].ev \notin {"sync_begin", "step"}
           /\ \E a \in (i + 1) .. Len(log) :
                  /\ log[a].ev = "sync_begin" /\ log[a].t = "After"
                  /\ log[a].f = log[b].f
                  /\ \A k \in (i + 1) .. (a - 1) : log[k].ev # "sync_begin"

\* C22 as stated: in every operation each physics_engine.step() call is
\* preceded, with no other step or After-phase pass in between, by a
\* Before-phase pass, and the next pass after it is an After-phase pass at
\* the same frame index.
C22_AsStated ==
    \A i \in DOMAIN log : log[i].ev = "step" => Bracketed(i)

\* C22: each step made by internal_perform_physics_simulation (tick, seek,
\* restart) is preceded, with no other step or After-phase pass in between,
\* by a Before-phase pass, and the next pass after it is an After-phase pass
\* at the same frame index.  The step(0) of reset_physics_simulation (play,
\* stop, set_physics_simulation_mode) is not: it passes no time and is
\* followed at once by restart, whose pass is a Before-phase one.
C22_PerformedStepsBracketed ==
    \A i \in DOMAIN log :
        log[i].ev = "step" =>
            IF log[i].t = "perform" THEN Bracketed(i)
            ELSE /\ log[i].d = 0
                 /\ i + 2 <= Len(log)
                 /\ log[i + 1].ev = "restart"
                 /\ log[i + 2].ev = "sync_begin" /\ log[i + 2].t = "Before"

\* a backward seek stepped twice, in its restart and on its own, each step
\* between a Before-phase and an After-phase pass at the target frame
C22_Witness ==
    /\ LastCall = "seek"
    /\ \E i, j \in DOMAIN log :
           /\ i < j
           /\ log[i].ev = "step" /\ log[j].ev = "step"
           /\ Bracketed(i) /\ Bracketed(j)
           /\ \E b \in DOMAIN log : BackwardSeek(b) /\ b < i

(***************************************************************************)
(* C23: the operations other than seek, a playing tick and stop            *)
(***************************************************************************)
CursorKeepers ==
    {"play", "set_active_model", "set_physics_simulation_mode",
     "reset_physics_simulation", "restart_from_current", "load_model",
     "load_model_motion", "load_camera_motion", "load_light_motion",
     "register_bone_keyframes"}

\* C23: play, set_active_model, set_physics_simulation_mode,
\* reset_physics_simulation, restart_from_current, load_model,
\* load_model_motion, load_camera_motion, load_light_motion and
\* register_bone_keyframes return with the current frame index
\* (local_frame_index.0) they were called with; play() in particular does
\* not move the cursor to the playing segment's start.
C23_CursorKept ==
    [][LastCall' \in CursorKeepers
          => local_frame_index'[1] = local_frame_index[1]]_vars

\* play() has returned, the clock runs, and the cursor is still past the
\* playing segment's start
C23_Witness ==
    /\ LastCall = "play"
    /\ audio_player.playing
    /\ local_frame_index[1] = MaxFrame
    /\ playing_segment.from < MaxFrame

(***************************************************************************)
(* C24: the tick's target                                                  *)
(***************************************************************************)
\* the sub-frame amount the tick handed to the synchronization, in units of
\* 1 / fps_rate
TickAmount == log[LastOf("sync_light")].d

\* C24: on every tick the internal seek's target frame is the clock's frame
\* index divided by fps_rate (rounded down) and the sub-frame amount is the
\* remainder over fps_rate, so that frame * fps_rate + amount * fps_rate is
\* the clock's frame index and the amount lies in [0, 1).
C24_TargetFromClock ==
    TickRan =>
        /\ fps_rate >= 1
        /\ TickSeek.f = audio_player.cur \div fps_rate
        /\ TickAmount = audio_player.cur % fps_rate
        /\ TickAmount \in 0 .. fps_rate - 1
        /\ TickSeek.f * fps_rate + TickAmount = audio_player.cur

(***************************************************************************)
(* C25: the camera between two frames                                      *)
(***************************************************************************)
CameraSynchronized == \E j \in DOMAIN log : log[j].ev = "sync_camera"
LastCameraSync == log[LastOf("sync_camera")]

\* C25: after synchronize_camera(frame, amount) with amount > 0 and no
\* camera keyframe at frame + 1 the camera shows the blend, weighted by
\* amount, of the camera track evaluated at frame and at frame + 1; with
\* amount = 0 it shows the track evaluated at frame.
C25_CameraBlended ==
    CameraSynchronized =>
        /\ (LastCameraSync.d > 0
              /\ ~HasKeyframe(camera_motion, LastCameraSync.f + 1))
           => camera.value = Lerp(ValueAt(camera_motion, LastCameraSync.f),
                                  ValueAt(camera_motion, LastCameraSync.f + 1),
                                  LastCameraSync.d)
        /\ LastCameraSync.d = 0
           => camera.value = ValueAt(camera_motion, LastCameraSync.f)

(***************************************************************************)
(* C26: the shadow camera after a pass                                     *)
(***************************************************************************)
ShadowSynchronized == \E j \in DOMAIN log : log[j].ev = "sync_shadow"
LastShadowSync == log[LastOf("sync_shadow")]

ClampedDuration(v) ==
    IF v < 0 THEN MAXIMUM_BASE_DURATION
    ELSE IF v < MINIMUM_BASE_DURATION THEN MINIMUM_BASE_DURATION ELSE v

\* C27: base_duration stays within [MINIMUM_BASE_DURATION,
\* MAXIMUM_BASE_DURATION] and no operation decreases it;
\* set_base_duration(v) leaves it at the larger of its old value and v
\* clamped to that range and lowers neither playing_segment.to nor
\* selection_segment.to; a seek(f) that is accepted leaves it at no less
\* than the smaller of f and MAXIMUM_BASE_DURATION.
C27_BaseDurationGrows ==
    [][/\ base_duration' >= MINIMUM_BASE_DURATION
       /\ base_duration' <= MAXIMUM_BASE_DURATION
       /\ base_duration' >= base_duration
       /\ LastCall' = "set_base_duration"
          => /\ base_duration' =
                  IF base_duration >= ClampedDuration(log'[1].f)
                  THEN base_duration ELSE ClampedDuration(log'[1].f)
             /\ playing_segment'.to >= playing_segment.to
             /\ selection_segment'.to >= selection_segment.to
       /\ (LastCall' = "seek" /\ can_seek(Cur))
          => base_duration' >= Min(log'[1].f, MAXIMUM_BASE_DURATION)]_vars

\* an accepted seek past the minimum has returned on a project whose base
\* duration a caller had raised to the maximum by asking for more
C27_Witness ==
    /\ LastCall = "seek"
    /\ log[1].f = MINIMUM_BASE_DURATION + 1
    /\ local_frame_index[1] = MINIMUM_BASE_DURATION + 1
    /\ base_duration = MAXIMUM_BASE_DURATION
    /\ playing_segment.to = MAXIMUM_BASE_DURATION

(***************************************************************************)
(* C28: play() while playing                                               *)
(***************************************************************************)
\* C28 as stated: play() called while playback runs leaves last_save_state
\* as the first play() took it.
C28_AsStated ==
    [][(LastCall' = "play" /\ audio_player.playing)
          => last_save_state' = last_save_state]_vars

\* C28: every play() that runs (model editing off) replaces
\* last_save_state by a snapshot of the project it was called on, also
\* while playback runs; the next stop() restores the active model that
\* this last play() found, which the first play() had set to None.
C28_PlayTakesSnapshot ==
    [][(LastCall' = "play" /\ ~state_flags.enable_model_editing)
          => last_save_state' = SaveStateNew(Cur)]_vars

\* play() has returned from a call made while playback ran: the snapshot
\* it left names no active model although a model was active before the
\* first play()
C28_Witness ==
    /\ LastCall = "play"
    /\ Found.playing
    /\ ~last_save_state.none
    /\ last_save_state.active_model = None
    /\ active_model_pair = <<None, 1>>

(***************************************************************************)
(* C29: the editing mode                                                   *)
(***************************************************************************)
StateRestored == \E j \in DOMAIN log : log[j].ev = "restore_state"

\* C29: in every state editing_mode is None exactly when no model is
\* active (active_model_pair.0 is None) and Select when one is, never Move
\* or Rotate; when play() has returned no model is active and the mode is
\* None; when stop() has restored the snapshot of a play() the mode is
\* Select exactly if that snapshot names an active model.
C29_EditingModeFollowsSelection ==
    /\ editing_mode \in {"None", "Select"}
    /\ editing_mode = "None" <=> active_model_pair[1] = None
    /\ (LastCall = "play" /\ ~state_flags.enable_model_editing)
       => active_model_pair[1] = None /\ editing_mode = "None"
    /\ (LastCall = "stop" /\ StateRestored)
       => (editing_mode = "Select" <=> log[LastOf("restore_state")].h # None)

\* stop() has returned after a play() that found a model active: the model
\* is active again and the mode is Select
C29_Witness ==
    /\ LastCall = "stop"
    /\ StateRestored
    /\ log[LastOf("restore_state")].h # None
    /\ active_model_pair[1] = log[LastOf("restore_state")].h
    /\ editing_mode = "Select"

(***************************************************************************)
(* C30: the books kept on models                                           *)
(***************************************************************************)
\* what the claim states of one state
ModelsInOrder ==
    /\ DOMAIN model_handle_map = 1 .. object_handler_allocator
    /\ transform_model_order_list = [i \in 1 .. object_handler_allocator |-> i]
    /\ DOMAIN model_to_motion = DOMAIN model_handle_map
    /\ active_model_pair[1] # None
       => active_model_pair[1] \in DOMAIN model_handle_map

\* C30: under add_model, load_model and load_model_motion the handles
\* handed out are 1, 2, 3, ... and none is handed out twice,
\* transform_model_order_list holds every handle of model_handle_map once,
\* in the order of insertion, every handle has its entry in
\* model_to_motion, and the active handle, if any, is a key of
\* model_handle_map.
C30_ModelsConsistent ==
    [][/\ ModelsInOrder'
       /\ DOMAIN model_handle_map \subseteq DOMAIN model_handle_map'
       /\ object_handler_allocator' # object_handler_allocator
          => /\ object_handler_allocator' = object_handler_allocator + 1
             /\ object_handler_allocator' \notin DOMAIN model_handle_map
             /\ object_handler_allocator' \in DOMAIN model_handle_map'
             /\ transform_model_order_list' =
                   Append(transform_model_order_list, object_handler_allocator')]_vars

\* add_model has returned with the second model, which a load_model
\* preceded: the first model is still the active one
C30_Witness ==
    /\ LastCall = "add_model"
    /\ object_handler_allocator = MaxModels
    /\ transform_model_order_list = <<1, 2>>
    /\ active_model_pair[1] = 1
    /\ model_to_motion[1].target = "model"

====
